---- MODULE Spec2Model ----
(***************************************************************************)
(* Kenya E-Campaign backend: the request handlers of the Express server    *)
(* and the rows they read and write through the Supabase client.           *)
(*                                                                         *)
(* Every handler is an async function: each `await supabase...` is one     *)
(* round trip to the store and one step of the model, and handlers of      *)
(* different requests interleave between their round trips.  The arrival   *)
(* of a request is taken together with its first round trip (nothing is    *)
(* shared before it).  A write to the store either is applied or is        *)
(* refused ({error} is returned and the rows stay as they were); the       *)
(* handlers differ in whether they look at that error.                     *)
(***************************************************************************)
EXTENDS Integers, Sequences, FiniteSets, Bags, TLC

(* ------------------------------------------------------------------ *)
(* Bounds of the model                                                 *)
(* ------------------------------------------------------------------ *)
\* requests that can be in flight at the same time
MaxReq == 2
\* rows politician_applications can hold
MaxApps == 2
\* rows users can hold in the account specification
MaxUsers == 1
\* last value of the clock (one unit = 5 minutes)
MaxTime == 5
\* rows ratings can hold
MaxRatings == 2
\* rows manifestos can hold
MaxManifestos == 2
\* rows ground_updates can hold
MaxGround == 3

(* ------------------------------------------------------------------ *)
(* Values                                                              *)
(* ------------------------------------------------------------------ *)
\* a missing id (undefined / null in the request body, no row)
NullId == 0
\* null in a text column, or a text field missing from the body
Null == "null"
\* null in a timestamp column
NullTime == 0 - 1
\* new Date(null): the epoch, which every reading of the clock is later than
Epoch == 0
\* 15 * 60 * 1000 ms, in units of 5 minutes
CodeTTL == 3

\* bcrypt.hash(password, 10): one-way, and bcrypt.compare(p, h) holds
\* exactly when h was made from p
Hash(password) == << "bcrypt", password >>

UserRow(i, name, mail, hash, r) ==
    [id |-> i, username |-> name, email |-> mail, password_hash |-> hash,
     role |-> r, is_active |-> TRUE, email_verified |-> FALSE,
     verify_code |-> Null, verify_code_expires |-> NullTime,
     verification_code_expires |-> NullTime,
     reset_code |-> Null, reset_code_expires |-> NullTime]

NullUser == UserRow(NullId, Null, Null, Hash(Null), Null)

\* users present when the application workflow is exercised:
\* user 1 is an admin, user 2 a voter; id 3 has no row
SeedUsers ==
    << [UserRow(1, "root", "root@x.ke", Hash("pw1"), "admin") EXCEPT !.email_verified = TRUE],
       [UserRow(2, "vic", "vic@x.ke", Hash("pw1"), "voter") EXCEPT !.email_verified = TRUE] >>

\* ids a request body can carry: missing, the two users, an unknown id
BodyUserIds == {NullId, 1, 2}
BodyAdminIds == {NullId, 1, 2, 3}
BodyAppIds == 1..(MaxApps + 1)

\* the application forms user_id sends: its own details (user 1 runs for
\* President and names no county), or the same with a field left out
OwnForm(user_id) ==
    IF user_id = 1
      THEN [full_name |-> "Ann", seat |-> "President", county |-> Null,
            constituency |-> Null, party |-> "P1", motivation |-> "m1", fee |-> "f1"]
      ELSE [full_name |-> "Bob", seat |-> "MP", county |-> "Nairobi",
            constituency |-> "Langata", party |-> "P2", motivation |-> "m2", fee |-> "f2"]

BodyForms(user_id) ==
    { OwnForm(user_id),
      [OwnForm(user_id) EXCEPT !.county = Null],
      [OwnForm(user_id) EXCEPT !.fee = Null] }

NullForm == [full_name |-> Null, seat |-> Null, county |-> Null,
             constituency |-> Null, party |-> Null, motivation |-> Null, fee |-> Null]

NullApp == [id |-> NullId, user_id |-> NullId, full_name |-> Null, seat |-> Null,
            county |-> Null, constituency |-> Null, party |-> Null,
            motivation |-> Null, fee |-> Null, status |-> Null]

VARIABLES
    users,          \* table users: sequence of rows, id = position
    applications,   \* table politician_applications
    profiles,       \* table politician_profiles
    now,            \* the clock read by Date.now() / new Date()
    inflight,       \* bag of the handler runs waiting on a round trip
    sent,           \* the answer sent by the step just taken, if any
    ratings,        \* table ratings
    manifestos,     \* table manifestos
    ground_updates, \* table ground_updates
    stopped         \* history: the applications whose approve run ended between
                    \* its writes because the server process ended

vars == << users, applications, profiles, now, inflight, sent,
           ratings, manifestos, ground_updates, stopped >>

tables == << users, applications, profiles, ratings, manifestos, ground_updates >>

\* a handler run: its request body, its locals and where it waits
NewReq ==
    [kind |-> "none", pc |-> "start", failed |-> FALSE,
     user_id |-> NullId, form |-> NullForm,
     application_id |-> NullId, admin_id |-> NullId, appData |-> NullApp,
     email |-> Null, code |-> Null, password |-> Null, username |-> Null,
     role |-> Null,
     target_id |-> NullId, rating |-> 0, category |-> Null, content |-> Null,
     ground_id |-> NullId, profile_id |-> NullId]

\* res.json(...) / res.status(...).json(...): the request, the text sent,
\* and whether a write of the run was refused
NullBody == [id |-> NullId, username |-> Null, email |-> Null, role |-> Null]

Answer(q, code, text) ==
    [kind |-> q.kind, status |-> code, resp |-> text, failed |-> q.failed,
     user_id |-> q.user_id, application_id |-> q.application_id,
     admin_id |-> q.admin_id, email |-> q.email,
     code |-> IF q.kind \in {"verify", "reset"} THEN q.code ELSE Null,
     password |-> IF q.kind = "login" THEN q.password ELSE Null,
     target_id |-> q.target_id, rating |-> q.rating, category |-> q.category,
     ground_id |-> q.ground_id,
     body |-> NullBody]

NoAnswer == Answer(NewReq, 0, "none")

(* ------------------------------------------------------------------ *)
(* The store and the event loop                                        *)
(* ------------------------------------------------------------------ *)
Rows(table) == { table[i] : i \in DOMAIN table }

\* .single(): the one matching row; no row, or more than one, gives
\* {data: null, error}
Single(rows, null) ==
    IF Cardinality(rows) = 1 THEN CHOOSE x \in rows : TRUE ELSE null

Waiting == BagToSet(inflight)

\* a request is accepted while the bound on concurrent handlers allows
CanArrive == BagCardinality(inflight) < MaxReq

\* handler run q suspends on its next await as q2
Suspend(q, q2) ==
    /\ inflight' = (inflight (-) SetToBag({q})) (+) SetToBag({q2})
    /\ sent' = NoAnswer

\* a new handler run suspends on its second await
Begin(q2) ==
    /\ inflight' = inflight (+) SetToBag({q2})
    /\ sent' = NoAnswer

\* handler run q answers and ends
Respond(q, code, text) ==
    /\ inflight' = inflight (-) SetToBag({q})
    /\ sent' = Answer(q, code, text)

\* a new handler run answers before it ever suspends again
RespondAtOnce(q, code, text) ==
    /\ inflight' = inflight
    /\ sent' = Answer(q, code, text)

\* an exception leaves an async handler that has no try/catch around it:
\* the promise the handler returned rejects.  Express 4 does not look at
\* that promise and the request is never answered; Express 5 passes the
\* error to its default error handler, which answers 500.
ThrownOutcomes == {"unanswered", "error_handler"}

ThrownAnswer(q, outcome) ==
    IF outcome = "error_handler" THEN Answer(q, 500, "Internal Server Error")
                                 ELSE Answer(q, 0, "no answer")

(* ------------------------------------------------------------------ *)
(* POST /apply-politician                                              *)
(* ------------------------------------------------------------------ *)
\* !user_id || !full_name || !seat || !motivation || !fee
MissingRequiredFields(user_id, form) ==
    \/ user_id = NullId
    \/ form.full_name = Null
    \/ form.seat = Null
    \/ form.motivation = Null
    \/ form.fee = Null

\* seat !== "President" && !county
CountyMissing(form) == form.seat # "President" /\ form.county = Null

\* select('id').eq('user_id', user_id).single()
ExistingApplication(user_id) ==
    Single({ a \in Rows(applications) : a.user_id = user_id }, NullApp)

\* mutant: only an application still pending counts as a duplicate
AlreadyAppliedWhilePending(user_id) ==
    /\ ExistingApplication(user_id) # NullApp
    /\ ExistingApplication(user_id).status = "pending"

\* if (existing)
AlreadyApplied(user_id) == ExistingApplication(user_id) # NullApp

\* the row the insert sends; the store numbers it
NewApplication(user_id, form) ==
    [id |-> Len(applications) + 1, user_id |-> user_id,
     full_name |-> form.full_name, seat |-> form.seat, county |-> form.county,
     constituency |-> form.constituency, party |-> form.party,
     motivation |-> form.motivation, fee |-> form.fee, status |-> "pending"]

\* arrival, validation of the body, and the duplicate lookup
ApplyCheck(user_id, form) ==
    /\ CanArrive
    /\ LET q == [NewReq EXCEPT !.kind = "apply", !.user_id = user_id, !.form = form]
       IN IF MissingRequiredFields(user_id, form)
            THEN RespondAtOnce(q, 400, "Missing required fields")
          ELSE IF CountyMissing(form)
            THEN RespondAtOnce(q, 400, "County is required for this seat")
          ELSE IF AlreadyApplied(user_id)
            THEN RespondAtOnce(q, 400, "You have already submitted an application")
          ELSE Begin([q EXCEPT !.pc = "apply_insert"])
    /\ UNCHANGED << users, applications, profiles, now, ratings, manifestos, ground_updates, stopped >>

\* the insert, and the answer that depends on its error
ApplyInsert(q) ==
    /\ q.pc = "apply_insert"
    /\ \E ok \in BOOLEAN :
         /\ ok => Len(applications) < MaxApps
         /\ applications' =
              IF ok THEN Append(applications, NewApplication(q.user_id, q.form))
                    ELSE applications
         /\ inflight' = inflight (-) SetToBag({q})
         /\ sent' = IF ok THEN Answer(q, 200, "Application submitted")
                         ELSE Answer([q EXCEPT !.failed = TRUE], 500, "insert refused")
    /\ UNCHANGED << users, profiles, now, ratings, manifestos, ground_updates, stopped >>

(* ------------------------------------------------------------------ *)
(* requireAdmin, POST /admin/approve-politician, /admin/reject-politician *)
(* ------------------------------------------------------------------ *)
\* mutant: any user row passes the gate
requireAdminAnyUser(admin_id) ==
    Single({ u \in Rows(users) : u.id = admin_id }, NullUser) # NullUser

\* select('role').eq('id', admin_id).single(); data && data.role === 'admin'
requireAdmin(admin_id) ==
    LET data == Single({ u \in Rows(users) : u.id = admin_id }, NullUser)
    IN  data # NullUser /\ data.role = "admin"

\* select('*').eq('id', application_id).single()
FetchApplication(application_id) ==
    Single({ a \in Rows(applications) : a.id = application_id }, NullApp)

\* mutant: only a missing application is refused
InvalidApplicationIfMissing(appData) == appData = NullApp

\* !appData || appData.status !== 'pending'
InvalidApplication(appData) == appData = NullApp \/ appData.status # "pending"

\* mutant: the bio is taken from the party field
ProfileOfWrongBio(appData) ==
    [user_id |-> appData.user_id, full_name |-> appData.full_name,
     seat |-> appData.seat, county |-> appData.county,
     constituency |-> appData.constituency, party |-> appData.party,
     bio |-> appData.party, is_verified |-> TRUE]

\* variant: the profile is written unverified
ProfileOfUnverified(appData) ==
    [user_id |-> appData.user_id, full_name |-> appData.full_name,
     seat |-> appData.seat, county |-> appData.county,
     constituency |-> appData.constituency, party |-> appData.party,
     bio |-> appData.motivation, is_verified |-> FALSE]

\* the object handed to politician_profiles.upsert
ProfileOf(appData) ==
    [user_id |-> appData.user_id, full_name |-> appData.full_name,
     seat |-> appData.seat, county |-> appData.county,
     constituency |-> appData.constituency, party |-> appData.party,
     bio |-> appData.motivation, is_verified |-> TRUE]

WithId(row, i) ==
    [id |-> i, user_id |-> row.user_id, full_name |-> row.full_name,
     seat |-> row.seat, county |-> row.county, constituency |-> row.constituency,
     party |-> row.party, bio |-> row.bio, is_verified |-> row.is_verified]

\* upsert keyed by user_id: the row of that user is overwritten, or a new
\* row is added when the user has none
UpsertProfile(table, row) ==
    IF \E i \in DOMAIN table : table[i].user_id = row.user_id
      THEN [i \in DOMAIN table |->
              IF table[i].user_id = row.user_id THEN WithId(row, table[i].id)
                                                ELSE table[i]]
      ELSE Append(table, WithId(row, Len(table) + 1))

\* update({ role: 'politician' }).eq('id', user_id)
PromoteUser(table, user_id) ==
    [i \in DOMAIN table |->
        IF table[i].id = user_id THEN [table[i] EXCEPT !.role = "politician"]
                                 ELSE table[i]]

\* update({ status }).eq('id', application_id)
SetStatus(table, application_id, status) ==
    [i \in DOMAIN table |->
        IF table[i].id = application_id THEN [table[i] EXCEPT !.status = status]
                                        ELSE table[i]]

\* res.json({ message: "Approved" }), whatever the writes returned
ApproveAnswer(failed) == "Approved"

\* arrival and the admin gate
ApproveAuth(application_id, admin_id) ==
    /\ CanArrive
    /\ LET q == [NewReq EXCEPT !.kind = "approve",
                               !.application_id = application_id,
                               !.admin_id = admin_id]
       IN IF ~requireAdmin(admin_id)
            THEN RespondAtOnce(q, 403, "Admin only")
            ELSE Begin([q EXCEPT !.pc = "approve_fetch"])
    /\ UNCHANGED << users, applications, profiles, now, ratings, manifestos, ground_updates, stopped >>

\* the application is read and checked
ApproveFetch(q) ==
    /\ q.pc = "approve_fetch"
    /\ LET appData == FetchApplication(q.application_id)
       IN IF InvalidApplication(appData)
            THEN Respond(q, 400, "Invalid application")
            ELSE Suspend(q, [q EXCEPT !.pc = "approve_role", !.appData = appData])
    /\ UNCHANGED << users, applications, profiles, now, ratings, manifestos, ground_updates, stopped >>

\* first write: the applicant's role
ApproveRole(q) ==
    /\ q.pc = "approve_role"
    /\ \E ok \in BOOLEAN :
         /\ users' = IF ok THEN PromoteUser(users, q.appData.user_id) ELSE users
         /\ Suspend(q, [q EXCEPT !.pc = "approve_profile", !.failed = q.failed \/ ~ok])
    /\ UNCHANGED << applications, profiles, now, ratings, manifestos, ground_updates, stopped >>

\* second write: the profile
ApproveProfile(q) ==
    /\ q.pc = "approve_profile"
    /\ \E ok \in BOOLEAN :
         /\ profiles' = IF ok THEN UpsertProfile(profiles, ProfileOf(q.appData))
                              ELSE profiles
         /\ Suspend(q, [q EXCEPT !.pc = "approve_status", !.failed = q.failed \/ ~ok])
    /\ UNCHANGED << users, applications, now, ratings, manifestos, ground_updates, stopped >>

\* third write: the status, then the answer
ApproveStatus(q) ==
    /\ q.pc = "approve_status"
    /\ \E ok \in BOOLEAN :
         /\ applications' =
              IF ok THEN SetStatus(applications, q.application_id, "approved")
                    ELSE applications
         /\ inflight' = inflight (-) SetToBag({q})
         /\ sent' = Answer([q EXCEPT !.failed = q.failed \/ ~ok], 200,
                           ApproveAnswer(q.failed \/ ~ok))
    /\ UNCHANGED << users, profiles, now, ratings, manifestos, ground_updates, stopped >>

\* arrival and the admin gate
RejectAuth(application_id, admin_id) ==
    /\ CanArrive
    /\ LET q == [NewReq EXCEPT !.kind = "reject",
                               !.application_id = application_id,
                               !.admin_id = admin_id]
       IN IF ~requireAdmin(admin_id)
            THEN RespondAtOnce(q, 403, "Admin only")
            ELSE Begin([q EXCEPT !.pc = "reject_status"])
    /\ UNCHANGED << users, applications, profiles, now, ratings, manifestos, ground_updates, stopped >>

\* the status a reject writes to the row, whatever it held
RejectedStatus(current) == "rejected"

\* update({ status: 'rejected' }).eq('id', application_id)
RejectWrite(table, application_id) ==
    [i \in DOMAIN table |->
        IF table[i].id = application_id
          THEN [table[i] EXCEPT !.status = RejectedStatus(table[i].status)]
          ELSE table[i]]

\* the only write of reject, then the answer
RejectStatus(q) ==
    /\ q.pc = "reject_status"
    /\ \E ok \in BOOLEAN :
         /\ applications' = IF ok THEN RejectWrite(applications, q.application_id)
                                  ELSE applications
         /\ inflight' = inflight (-) SetToBag({q})
         /\ sent' = Answer([q EXCEPT !.failed = ~ok], 200, "Rejected")
    /\ UNCHANGED << users, profiles, now, ratings, manifestos, ground_updates, stopped >>

(* ------------------------------------------------------------------ *)
(* The application workflow, handlers interleaving                    *)
(* ------------------------------------------------------------------ *)
Init ==
    /\ users = SeedUsers
    /\ applications = << >>
    /\ profiles = << >>
    /\ now = 1
    /\ inflight = EmptyBag
    /\ sent = NoAnswer
    /\ ratings = << >>
    /\ manifestos = << >>
    /\ ground_updates = << >>
    /\ stopped = {}

Next ==
    \/ \E u \in BodyUserIds : \E f \in BodyForms(u) : ApplyCheck(u, f)
    \/ \E a \in BodyAppIds, ad \in BodyAdminIds : ApproveAuth(a, ad)
    \/ \E a \in BodyAppIds, ad \in BodyAdminIds : RejectAuth(a, ad)
    \/ \E q \in Waiting : ApplyInsert(q)
    \/ \E q \in Waiting : ApproveFetch(q)
    \/ \E q \in Waiting : ApproveRole(q)
    \/ \E q \in Waiting : ApproveProfile(q)
    \/ \E q \in Waiting : ApproveStatus(q)
    \/ \E q \in Waiting : RejectStatus(q)

Spec == Init /\ [][Next]_vars

\* requests served one after another: a request arrives only when no
\* handler is part-way
Idle == inflight = EmptyBag

NextSeq ==
    \/ Idle /\ \E u \in BodyUserIds : \E f \in BodyForms(u) : ApplyCheck(u, f)
    \/ Idle /\ \E a \in BodyAppIds, ad \in BodyAdminIds : ApproveAuth(a, ad)
    \/ Idle /\ \E a \in BodyAppIds, ad \in BodyAdminIds : RejectAuth(a, ad)
    \/ \E q \in Waiting : ApplyInsert(q)
    \/ \E q \in Waiting : ApproveFetch(q)
    \/ \E q \in Waiting : ApproveRole(q)
    \/ \E q \in Waiting : ApproveProfile(q)
    \/ \E q \in Waiting : ApproveStatus(q)
    \/ \E q \in Waiting : RejectStatus(q)

SpecSeq == Init /\ [][NextSeq]_vars

\* the server process ends (a restart, an unhandled rejection) while an
\* approve run waits between its writes: the run is gone, nothing is
\* answered, and what it wrote so far stays
ApproveStops(q) ==
    /\ q.pc \in {"approve_profile", "approve_status"}
    /\ inflight' = inflight (-) SetToBag({q})
    /\ sent' = Answer(q, 0, "stopped")
    /\ stopped' = stopped \cup {q.application_id}
    /\ UNCHANGED << users, applications, profiles, now, ratings, manifestos, ground_updates >>

\* requests served one after another, and runs of approve that can stop
NextRetry ==
    \/ NextSeq
    \/ \E q \in Waiting : ApproveStops(q)

SpecRetry == Init /\ [][NextRetry]_vars

(* ------------------------------------------------------------------ *)
(* POST /register, /verify-email, /login, /forgot-password,           *)
(* /reset-password                                                     *)
(* ------------------------------------------------------------------ *)
\* what the bodies of the account requests can carry
BodyEmails == {"a@x.ke", "b@x.ke"}
\* the password chosen at /register, the one chosen at /reset-password, and
\* what /login can be sent (null: the field is missing)
RegisterPasswords == {"pw1"}
NewPasswords == {"pw2"}
BodyPasswords == {"pw1", "pw2", Null}
\* Math.floor(100000 + Math.random() * 900000).toString(): two of the codes
Codes == {"c1", "c2"}
\* a supplied code: one of them, or null
BodyCodes == Codes \cup {Null}
BodyRoles == {"voter"}

UsernameOf(email) == IF email = "a@x.ke" THEN "alice" ELSE "bob"

\* new Date(x) of a stored timestamp
DateOf(t) == IF t = NullTime THEN Epoch ELSE t

\* new Date(Date.now() + 15 * 60 * 1000)
ExpiryFrom(t) == t + CodeTTL

\* select("*").eq("email", email).single()
UserByEmail(email) == Single({ u \in Rows(users) : u.email = email }, NullUser)

\* the users table admits one row per email
EmailTaken(email) == \E u \in Rows(users) : u.email = email

\* the row /register inserts; the store numbers it and fills the defaults
NewUser(email, password, role, code) ==
    [UserRow(Len(users) + 1, UsernameOf(email), email, Hash(password), role)
       EXCEPT !.email_verified = FALSE,
              !.verify_code = code,
              !.verify_code_expires = ExpiryFrom(now)]

\* arrival, hash, code and the insert; its error is answered 400
RegisterInsert(email, password, role, code) ==
    /\ CanArrive
    /\ LET q == [NewReq EXCEPT !.kind = "register", !.email = email,
                               !.password = password, !.role = role]
       IN \E ok \in BOOLEAN :
            /\ ok => (~EmailTaken(email) /\ Len(users) < MaxUsers)
            /\ users' = IF ok THEN Append(users, NewUser(email, password, role, code))
                              ELSE users
            /\ IF ok THEN Begin([q EXCEPT !.pc = "register_email"])
                     ELSE RespondAtOnce([q EXCEPT !.failed = TRUE], 400, "insert refused")
    /\ UNCHANGED << applications, profiles, now, ratings, manifestos, ground_updates, stopped >>

\* await sendEmail(...): it resolves, or it throws and the handler ends
\* there
RegisterEmail(q) ==
    /\ q.pc = "register_email"
    /\ \E outcome \in {"delivered"} \cup ThrownOutcomes :
         /\ inflight' = inflight (-) SetToBag({q})
         /\ sent' = IF outcome = "delivered" THEN Answer(q, 200, "success")
                                              ELSE ThrownAnswer(q, outcome)
    /\ UNCHANGED << users, applications, profiles, now, ratings, manifestos, ground_updates, stopped >>

\* mutant: a code is refused from the instant of its expiry on
VerifyRejectedAtExpiry(user, code) ==
    \/ user = NullUser
    \/ user.verify_code # code
    \/ now >= DateOf(user.verify_code_expires)

\* !user || user.verify_code !== code || new Date() > new Date(user.verify_code_expires)
VerifyRejected(user, code) ==
    \/ user = NullUser
    \/ user.verify_code # code
    \/ now > DateOf(user.verify_code_expires)

\* update({ email_verified: true, verify_code: null, verification_code_expires: null })
VerifyPatch(row) ==
    [row EXCEPT !.email_verified = TRUE,
                !.verify_code = Null,
                !.verification_code_expires = NullTime]

\* arrival, the lookup and the validation
VerifyCheck(email, code) ==
    /\ CanArrive
    /\ LET q == [NewReq EXCEPT !.kind = "verify", !.email = email, !.code = code]
       IN IF VerifyRejected(UserByEmail(email), code)
            THEN RespondAtOnce(q, 400, "Invalid or expired code")
            ELSE Begin([q EXCEPT !.pc = "verify_update"])
    /\ UNCHANGED << users, applications, profiles, now, ratings, manifestos, ground_updates, stopped >>

\* the update, whose error is not read, then the answer
VerifyUpdate(q) ==
    /\ q.pc = "verify_update"
    /\ \E ok \in BOOLEAN :
         /\ users' = IF ok
              THEN [i \in DOMAIN users |->
                      IF users[i].email = q.email THEN VerifyPatch(users[i]) ELSE users[i]]
              ELSE users
         /\ inflight' = inflight (-) SetToBag({q})
         /\ sent' = Answer([q EXCEPT !.failed = ~ok], 200, "success")
    /\ UNCHANGED << applications, profiles, now, ratings, manifestos, ground_updates, stopped >>

\* the body of a successful login
LoginBody(user) ==
    [id |-> user.id, username |-> user.username, email |-> user.email, role |-> user.role]

\* the answer of /login, in the order of its checks
LoginAnswer(q, user) ==
    IF q.email = Null \/ q.password = Null
      THEN Answer(q, 400, "Email and password are required")
    ELSE IF user = NullUser
      THEN Answer(q, 401, "Invalid email or password")
    ELSE IF ~user.is_active
      THEN Answer(q, 403, "Account is suspended")
    ELSE IF user.password_hash # Hash(q.password)
      THEN Answer(q, 401, "Invalid email or password")
    ELSE IF ~user.email_verified
      THEN Answer(q, 200, "Please verify your email first")
    ELSE [Answer(q, 200, "logged in") EXCEPT !.body = LoginBody(user)]

\* arrival, the lookup and the answer
Login(email, password) ==
    /\ CanArrive
    /\ LET q == [NewReq EXCEPT !.kind = "login", !.email = email, !.password = password]
       IN /\ sent' = LoginAnswer(q, UserByEmail(email))
          /\ inflight' = inflight
    /\ UNCHANGED << users, applications, profiles, now, ratings, manifestos, ground_updates, stopped >>

\* update({ reset_code: code, reset_code_expires: ... })
ForgotPatch(row, code) ==
    [row EXCEPT !.reset_code = code, !.reset_code_expires = ExpiryFrom(now)]

\* arrival, the code and the lookup
ForgotRead(email, code) ==
    /\ CanArrive
    /\ LET q == [NewReq EXCEPT !.kind = "forgot", !.email = email, !.code = code]
       IN IF UserByEmail(email) = NullUser
            THEN RespondAtOnce(q, 200, "Email not found")
            ELSE Begin([q EXCEPT !.pc = "forgot_update"])
    /\ UNCHANGED << users, applications, profiles, now, ratings, manifestos, ground_updates, stopped >>

\* the update, whose error is not read
ForgotUpdate(q) ==
    /\ q.pc = "forgot_update"
    /\ \E ok \in BOOLEAN :
         /\ users' = IF ok
              THEN [i \in DOMAIN users |->
                      IF users[i].email = q.email THEN ForgotPatch(users[i], q.code)
                                                  ELSE users[i]]
              ELSE users
         /\ Suspend(q, [q EXCEPT !.pc = "forgot_email", !.failed = ~ok])
    /\ UNCHANGED << applications, profiles, now, ratings, manifestos, ground_updates, stopped >>

\* await sendEmail(...), then the answer
ForgotEmail(q) ==
    /\ q.pc = "forgot_email"
    /\ \E outcome \in {"delivered"} \cup ThrownOutcomes :
         /\ inflight' = inflight (-) SetToBag({q})
         /\ sent' = IF outcome = "delivered" THEN Answer(q, 200, "success")
                                              ELSE ThrownAnswer(q, outcome)
    /\ UNCHANGED << users, applications, profiles, now, ratings, manifestos, ground_updates, stopped >>

\* !data || data.reset_code !== code || new Date() > new Date(data.reset_code_expires)
ResetRejected(data, code) ==
    \/ data = NullUser
    \/ data.reset_code # code
    \/ now > DateOf(data.reset_code_expires)

\* update({ password_hash: hash, reset_code: null, reset_code_expires: null })
ResetPatch(row, password) ==
    [row EXCEPT !.password_hash = Hash(password),
                !.reset_code = Null,
                !.reset_code_expires = NullTime]

\* arrival, the lookup and the validation
ResetCheck(email, code, password) ==
    /\ CanArrive
    /\ LET q == [NewReq EXCEPT !.kind = "reset", !.email = email, !.code = code,
                               !.password = password]
       IN IF ResetRejected(UserByEmail(email), code)
            THEN RespondAtOnce(q, 200, "Invalid or expired code")
            ELSE Begin([q EXCEPT !.pc = "reset_update"])
    /\ UNCHANGED << users, applications, profiles, now, ratings, manifestos, ground_updates, stopped >>

\* the hash and the update, whose error is not read, then the answer
ResetUpdate(q) ==
    /\ q.pc = "reset_update"
    /\ \E ok \in BOOLEAN :
         /\ users' = IF ok
              THEN [i \in DOMAIN users |->
                      IF users[i].email = q.email THEN ResetPatch(users[i], q.password)
                                                  ELSE users[i]]
              ELSE users
         /\ inflight' = inflight (-) SetToBag({q})
         /\ sent' = Answer([q EXCEPT !.failed = ~ok], 200, "success")
    /\ UNCHANGED << applications, profiles, now, ratings, manifestos, ground_updates, stopped >>

\* time passes
Tick ==
    /\ now < MaxTime
    /\ now' = now + 1
    /\ sent' = NoAnswer
    /\ UNCHANGED << users, applications, profiles, inflight,
                    ratings, manifestos, ground_updates, stopped >>

(* ------------------------------------------------------------------ *)
(* The accounts, handlers interleaving and the clock running           *)
(* ------------------------------------------------------------------ *)
InitAuth ==
    /\ users = << >>
    /\ applications = << >>
    /\ profiles = << >>
    /\ now = 1
    /\ inflight = EmptyBag
    /\ sent = NoAnswer
    /\ ratings = << >>
    /\ manifestos = << >>
    /\ ground_updates = << >>
    /\ stopped = {}

NextAuth ==
    \/ \E e \in BodyEmails, p \in RegisterPasswords, r \in BodyRoles, c \in Codes :
         RegisterInsert(e, p, r, c)
    \/ \E e \in BodyEmails, c \in BodyCodes : VerifyCheck(e, c)
    \/ \E e \in BodyEmails, p \in BodyPasswords : Login(e, p)
    \/ \E e \in BodyEmails, c \in Codes : ForgotRead(e, c)
    \/ \E e \in BodyEmails, c \in BodyCodes, p \in NewPasswords : ResetCheck(e, c, p)
    \/ \E q \in Waiting : RegisterEmail(q)
    \/ \E q \in Waiting : VerifyUpdate(q)
    \/ \E q \in Waiting : ForgotUpdate(q)
    \/ \E q \in Waiting : ForgotEmail(q)
    \/ \E q \in Waiting : ResetUpdate(q)
    \/ Tick

SpecAuth == InitAuth /\ [][NextAuth]_vars

(* ------------------------------------------------------------------ *)
(* POST /login against accounts in every condition                    *)
(* ------------------------------------------------------------------ *)
\* the rows /login can find for an email: the account as /register made
\* it, verified or not, active or suspended in the store (is_active is a
\* column the server reads and never writes)
AccountsOf(email, password) ==
    { [UserRow(NullId, UsernameOf(email), email, Hash(password), "voter")
         EXCEPT !.is_active = a, !.email_verified = v] : a \in BOOLEAN, v \in BOOLEAN }

InitLogin ==
    /\ \E ra \in AccountsOf("a@x.ke", "pw1"), rb \in AccountsOf("b@x.ke", "pw2") :
         users = << [ra EXCEPT !.id = 1], [rb EXCEPT !.id = 2] >>
    /\ applications = << >>
    /\ profiles = << >>
    /\ now = 1
    /\ inflight = EmptyBag
    /\ sent = NoAnswer
    /\ ratings = << >>
    /\ manifestos = << >>
    /\ ground_updates = << >>
    /\ stopped = {}

NextLogin == \E e \in BodyEmails, p \in BodyPasswords : Login(e, p)

SpecLogin == InitLogin /\ [][NextLogin]_vars

(* ------------------------------------------------------------------ *)
(* POST /rate                                                          *)
(* ------------------------------------------------------------------ *)
\* what the body of /rate can carry; a rating of 0 and a missing rating
\* are the same to the handler (!rating)
BodyTargetIds == {NullId, 1, 2}
BodyRatings == {0 - 1, 0, 1, 5, 6}

\* !user_id || !target_id || !rating
RateMissingFields(user_id, target_id, rating) ==
    user_id = NullId \/ target_id = NullId \/ rating = 0

\* variant: only the upper end of the range is tested
RatingAboveRange(rating) == rating > 5

\* rating < 1 || rating > 5
RatingOutOfRange(rating) == rating < 1 \/ rating > 5

\* variant: the target is written under another target_type
RatingRowOfComment(user_id, target_id, rating) ==
    [user_id |-> user_id, target_type |-> "comment", target_id |-> target_id,
     rating |-> rating]

\* the object handed to ratings.upsert
RatingRow(user_id, target_id, rating) ==
    [user_id |-> user_id, target_type |-> "manifesto", target_id |-> target_id,
     rating |-> rating]

SameTarget(r1, r2) ==
    /\ r1.user_id = r2.user_id
    /\ r1.target_type = r2.target_type
    /\ r1.target_id = r2.target_id

\* upsert on (user_id, target_type, target_id): the row of that user for
\* that target is overwritten, or a new row is added when there is none
UpsertRating(table, row) ==
    IF \E i \in DOMAIN table : SameTarget(table[i], row)
      THEN [i \in DOMAIN table |-> IF SameTarget(table[i], row) THEN row ELSE table[i]]
      ELSE Append(table, row)

\* the whole handler: validation, the upsert, and the answer that depends
\* on its error
Rate(user_id, target_id, rating) ==
    /\ CanArrive
    /\ LET q == [NewReq EXCEPT !.kind = "rate", !.user_id = user_id,
                               !.target_id = target_id, !.rating = rating]
       IN IF RateMissingFields(user_id, target_id, rating)
            THEN /\ RespondAtOnce(q, 400, "Missing fields")
                 /\ ratings' = ratings
          ELSE IF RatingOutOfRange(rating)
            THEN /\ RespondAtOnce(q, 400, "Rating must be between 1 and 5")
                 /\ ratings' = ratings
          ELSE \E ok \in BOOLEAN :
                 LET written == UpsertRating(ratings, RatingRow(user_id, target_id, rating))
                 IN /\ ok => Len(written) <= MaxRatings
                    /\ ratings' = IF ok THEN written ELSE ratings
                    /\ IF ok THEN RespondAtOnce(q, 200, "Rating saved")
                             ELSE RespondAtOnce([q EXCEPT !.failed = TRUE], 500,
                                                "upsert refused")
    /\ UNCHANGED << users, applications, profiles, now, manifestos, ground_updates, stopped >>

InitRate ==
    /\ users = SeedUsers
    /\ applications = << >>
    /\ profiles = << >>
    /\ now = 1
    /\ inflight = EmptyBag
    /\ sent = NoAnswer
    /\ ratings = << >>
    /\ manifestos = << >>
    /\ ground_updates = << >>
    /\ stopped = {}

NextRate ==
    \E u \in BodyUserIds, t \in BodyTargetIds, r \in BodyRatings : Rate(u, t, r)

SpecRate == InitRate /\ [][NextRate]_vars

(* ------------------------------------------------------------------ *)
(* POST /manifesto                                                     *)
(* ------------------------------------------------------------------ *)
allowedCategories ==
    {"Youth & Jobs", "Education", "Health", "Economy", "Governance"}

\* what the body of /manifesto can carry: user_id missing, 1..3, or the
\* unknown 4; two allowed categories, one that is not, or none
BodyManifestoUserIds == {NullId, 1, 2, 3, 4}
BodyCategories == {"Health", "Education", "Sports", Null}
BodyContents == {"plan", Null}

\* the users and profiles /manifesto meets once approvals have run: user 1
\* was approved (politician, profile 2), user 2 was promoted but the upsert
\* of the profile was refused (politician, no profile), the promotion of
\* user 3 was refused but the profile was written (voter, profile 1)
ManifestoUsers ==
    << [UserRow(1, "ann", "ann@x.ke", Hash("pw1"), "politician") EXCEPT !.email_verified = TRUE],
       [UserRow(2, "bob", "bob@x.ke", Hash("pw1"), "politician") EXCEPT !.email_verified = TRUE],
       [UserRow(3, "cat", "cat@x.ke", Hash("pw1"), "voter") EXCEPT !.email_verified = TRUE] >>

ManifestoProfiles ==
    << WithId(ProfileOf([NewApplication(3, OwnForm(3)) EXCEPT !.id = 1]), 1),
       WithId(ProfileOf([NewApplication(1, OwnForm(1)) EXCEPT !.id = 2]), 2) >>

\* !user_id || !category || !content
ManifestoMissingFields(user_id, category, content) ==
    user_id = NullId \/ category = Null \/ content = Null

\* variant: only an unknown user is turned away
NotPoliticianIfUnknown(user) == user = NullUser

\* !user || user.role !== 'politician'
NotPolitician(user) == user = NullUser \/ user.role # "politician"

\* select('role').eq('id', user_id).single()
UserById(user_id) == Single({ u \in Rows(users) : u.id = user_id }, NullUser)

NullProfile == WithId(ProfileOf(NullApp), NullId)

\* select('id').eq('user_id', user_id).single()
ProfileByUser(user_id) ==
    Single({ p \in Rows(profiles) : p.user_id = user_id }, NullProfile)

ManifestoRow(profile_id, category, content) ==
    [politician_id |-> profile_id, category |-> category, content |-> content]

\* arrival, the checks of the body, and the lookup of the role
ManifestoRole(user_id, category, content) ==
    /\ CanArrive
    /\ LET q == [NewReq EXCEPT !.kind = "manifesto", !.user_id = user_id,
                               !.category = category, !.content = content]
       IN IF ManifestoMissingFields(user_id, category, content)
            THEN RespondAtOnce(q, 400, "All fields are required")
          ELSE IF category \notin allowedCategories
            THEN RespondAtOnce(q, 400, "Invalid manifesto category")
          ELSE IF NotPolitician(UserById(user_id))
            THEN RespondAtOnce(q, 403, "Only politicians can post manifestos")
          ELSE Begin([q EXCEPT !.pc = "manifesto_profile"])
    /\ UNCHANGED << users, applications, profiles, now, ratings, manifestos, ground_updates, stopped >>

\* the lookup of the profile
ManifestoProfile(q) ==
    /\ q.pc = "manifesto_profile"
    /\ LET profile == ProfileByUser(q.user_id)
       IN IF profile = NullProfile
            THEN Respond(q, 404, "Politician profile not found")
            ELSE Suspend(q, [q EXCEPT !.pc = "manifesto_insert", !.profile_id = profile.id])
    /\ UNCHANGED << users, applications, profiles, now, ratings, manifestos, ground_updates, stopped >>

\* the insert, and the answer that depends on its error
ManifestoInsert(q) ==
    /\ q.pc = "manifesto_insert"
    /\ \E ok \in BOOLEAN :
         /\ ok => Len(manifestos) < MaxManifestos
         /\ manifestos' =
              IF ok THEN Append(manifestos, ManifestoRow(q.profile_id, q.category, q.content))
                    ELSE manifestos
         /\ inflight' = inflight (-) SetToBag({q})
         /\ sent' = IF ok THEN Answer(q, 200, "Manifesto posted successfully")
                         ELSE Answer([q EXCEPT !.failed = TRUE], 500, "insert refused")
    /\ UNCHANGED << users, applications, profiles, now, ratings, ground_updates, stopped >>

InitManifesto ==
    /\ users = ManifestoUsers
    /\ applications = << >>
    /\ profiles = ManifestoProfiles
    /\ now = 1
    /\ inflight = EmptyBag
    /\ sent = NoAnswer
    /\ ratings = << >>
    /\ manifestos = << >>
    /\ ground_updates = << >>
    /\ stopped = {}

NextManifesto ==
    \/ \E u \in BodyManifestoUserIds, c \in BodyCategories, t \in BodyContents :
         ManifestoRole(u, c, t)
    \/ \E q \in Waiting : ManifestoProfile(q)
    \/ \E q \in Waiting : ManifestoInsert(q)

SpecManifesto == InitManifesto /\ [][NextManifesto]_vars

(* ------------------------------------------------------------------ *)
(* POST /ground-updates, POST /ground-repost                           *)
(* ------------------------------------------------------------------ *)
\* what the bodies can carry
BodyGroundIds == 0..(MaxGround + 1)
BodyGroundContents == {"g1", Null}

GroundRow(i, user_id, location, category, content, repost_of) ==
    [id |-> i, user_id |-> user_id, location |-> location, category |-> category,
     content |-> content, repost_of |-> repost_of]

NullGround == GroundRow(NullId, NullId, Null, Null, Null, NullId)

\* the whole of /ground-updates: the check of the body, the insert and the
\* answer that depends on its error
GroundUpdate(user_id, content) ==
    /\ CanArrive
    /\ LET q == [NewReq EXCEPT !.kind = "ground", !.user_id = user_id,
                               !.content = content]
       IN IF user_id = NullId \/ content = Null
            THEN /\ RespondAtOnce(q, 400, "All fields required")
                 /\ ground_updates' = ground_updates
          ELSE \E ok \in BOOLEAN :
                 /\ ok => Len(ground_updates) < MaxGround
                 /\ ground_updates' =
                      IF ok THEN Append(ground_updates,
                                        GroundRow(Len(ground_updates) + 1, user_id,
                                                  "Nairobi", "roads", content, NullId))
                            ELSE ground_updates
                 /\ IF ok THEN RespondAtOnce(q, 200, "Update posted")
                          ELSE RespondAtOnce([q EXCEPT !.failed = TRUE], 500,
                                             "insert refused")
    /\ UNCHANGED << users, applications, profiles, now, ratings, manifestos, stopped >>

\* select('*').eq('id', ground_id).single()
OriginalOf(ground_id) ==
    Single({ g \in Rows(ground_updates) : g.id = ground_id }, NullGround)

\* original.location with original null: a TypeError is thrown
RepostOfMissing(q, outcome) == ThrownAnswer(q, outcome)

\* arrival, the check of the body and the read of the source row; the
\* object for the insert is built from the row that was read
GroundRepostRead(user_id, ground_id) ==
    /\ CanArrive
    /\ LET q == [NewReq EXCEPT !.kind = "repost", !.user_id = user_id,
                               !.ground_id = ground_id]
           original == OriginalOf(ground_id)
       IN IF user_id = NullId \/ ground_id = NullId
            THEN RespondAtOnce(q, 400, "Missing fields")
          ELSE IF original = NullGround
            THEN \E outcome \in ThrownOutcomes :
                   /\ inflight' = inflight
                   /\ sent' = RepostOfMissing(q, outcome)
          ELSE Begin([q EXCEPT !.pc = "repost_insert", !.content = original.content])
    /\ UNCHANGED << users, applications, profiles, now, ratings, manifestos, ground_updates, stopped >>

\* the insert of the copy, and the answer that depends on its error
GroundRepostInsert(q) ==
    /\ q.pc = "repost_insert"
    /\ \E ok \in BOOLEAN :
         /\ ok => Len(ground_updates) < MaxGround
         /\ ground_updates' =
              IF ok THEN Append(ground_updates,
                                GroundRow(Len(ground_updates) + 1, q.user_id,
                                          "Nairobi", "roads", q.content, q.ground_id))
                    ELSE ground_updates
         /\ inflight' = inflight (-) SetToBag({q})
         /\ sent' = IF ok THEN Answer(q, 200, "Reposted")
                         ELSE Answer([q EXCEPT !.failed = TRUE], 500, "insert refused")
    /\ UNCHANGED << users, applications, profiles, now, ratings, manifestos, stopped >>

InitGround ==
    /\ users = SeedUsers
    /\ applications = << >>
    /\ profiles = << >>
    /\ now = 1
    /\ inflight = EmptyBag
    /\ sent = NoAnswer
    /\ ratings = << >>
    /\ manifestos = << >>
    /\ ground_updates = << >>
    /\ stopped = {}

NextGround ==
    \/ \E u \in BodyUserIds, c \in BodyGroundContents : GroundUpdate(u, c)
    \/ \E u \in BodyUserIds, g \in BodyGroundIds : GroundRepostRead(u, g)
    \/ \E q \in Waiting : GroundRepostInsert(q)

SpecGround == InitGround /\ [][NextGround]_vars

(* ------------------------------------------------------------------ *)
(* Properties of the application workflow                             *)
(* ------------------------------------------------------------------ *)
\* handler run q took the step: one copy of it left its place in the bag
Stepped(q) == CopiesIn(q, inflight') < CopiesIn(q, inflight)

ApplicationsOf(table, user_id) == { i \in DOMAIN table : table[i].user_id = user_id }

ProfilesOf(table, user_id) == { i \in DOMAIN table : table[i].user_id = user_id }

\* C1: served with no other request interleaving, an approve of a pending
\* application whose three writes are all applied ends with the applicant's
\* role = politician, exactly one profile row of the applicant, verified and
\* copied from the application (bio = motivation), and status = approved.
C1_ApproveLandsAllThree ==
    [][\A q \in Waiting :
         (q.pc = "approve_status" /\ Stepped(q) /\ ~sent'.failed)
         => LET a == q.appData IN
            /\ sent'.resp = "Approved"
            /\ \E i \in DOMAIN users' : users'[i].id = a.user_id
            /\ \A i \in DOMAIN users' :
                 users'[i].id = a.user_id => users'[i].role = "politician"
            /\ Cardinality(ProfilesOf(profiles', a.user_id)) = 1
            /\ \A i \in ProfilesOf(profiles', a.user_id) :
                 /\ profiles'[i].is_verified = TRUE
                 /\ profiles'[i].full_name = a.full_name
                 /\ profiles'[i].seat = a.seat
                 /\ profiles'[i].county = a.county
                 /\ profiles'[i].constituency = a.constituency
                 /\ profiles'[i].party = a.party
                 /\ profiles'[i].bio = a.motivation
            /\ \E i \in DOMAIN applications' :
                 /\ applications'[i].id = q.application_id
                 /\ applications'[i].status = "approved"
                 /\ applications'[i].user_id = a.user_id
                 /\ applications'[i].full_name = a.full_name
    ]_vars

C1_Witness ==
    /\ sent.kind = "approve" /\ sent.resp = "Approved" /\ ~sent.failed
    /\ sent.application_id \in DOMAIN applications
    /\ applications[sent.application_id].status = "approved"
    /\ \E i \in DOMAIN profiles :
         /\ profiles[i].user_id = applications[sent.application_id].user_id
         /\ profiles[i].bio = applications[sent.application_id].motivation
    /\ \E i \in DOMAIN users :
         /\ users[i].id = applications[sent.application_id].user_id
         /\ users[i].role = "politician"

\* C2: an approve whose application_id matches no row, or a row that is
\* approved or rejected, is answered with an error and changes no table; the
\* admin gate before it changes no table either.
C2_NonPendingApproveWritesNothing ==
    [][/\ \A q \in Waiting :
            (/\ q.pc = "approve_fetch" /\ Stepped(q)
             /\ \/ ~\E i \in DOMAIN applications : applications[i].id = q.application_id
                \/ \E i \in DOMAIN applications :
                     /\ applications[i].id = q.application_id
                     /\ applications[i].status \in {"approved", "rejected"})
            => /\ sent'.kind = "approve"
               /\ sent'.status = 400
               /\ sent'.resp = "Invalid application"
               /\ tables' = tables
               /\ inflight' = inflight (-) SetToBag({q})
       /\ (sent'.kind = "approve" /\ sent'.status # 200) => tables' = tables
    ]_vars

C2_Witness ==
    /\ sent.kind = "approve" /\ sent.status = 400 /\ sent.resp = "Invalid application"
    /\ sent.application_id \in DOMAIN applications
    /\ applications[sent.application_id].status = "approved"

\* C3: approve never answers "Approved" when one of its writes was refused.
C3_NoApprovedAfterRefusedWrite ==
    ~(sent.kind = "approve" /\ sent.resp = "Approved" /\ sent.failed)

\* C4: an application whose status is approved or rejected keeps that status
\* in every step.
C4_TerminalStatusImmutable ==
    [][\A i \in DOMAIN applications :
         applications[i].status \in {"approved", "rejected"}
         => applications'[i].status = applications[i].status
    ]_vars

\* the step is the arrival of a request that is answered before any write
AnsweredAtOnce == sent' # NoAnswer /\ inflight' = inflight

\* the step is the arrival of a request whose handler run q now waits
Admitted(q) ==
    /\ CopiesIn(q, inflight') > CopiesIn(q, inflight)
    /\ BagCardinality(inflight') > BagCardinality(inflight)

\* C5: an approve or reject whose admin_id is not the id of a users row with
\* role = admin is answered 403 "Admin only" on arrival and writes to no
\* table; no handler run of such a request gets past the gate.
C5_AdminOnly ==
    [][LET IsAdmin(ad) ==
             \E i \in DOMAIN users : users[i].id = ad /\ users[i].role = "admin"
       IN /\ (/\ AnsweredAtOnce
               /\ sent'.kind \in {"approve", "reject"}
               /\ ~IsAdmin(sent'.admin_id))
              => /\ sent'.status = 403
                 /\ sent'.resp = "Admin only"
                 /\ tables' = tables
          /\ \A q \in BagToSet(inflight') :
               (Admitted(q) /\ q.kind \in {"approve", "reject"})
               => IsAdmin(q.admin_id) /\ tables' = tables
    ]_vars

\* a politician (user 2 after approval) is turned away
C5_Witness ==
    /\ sent.kind \in {"approve", "reject"}
    /\ sent.status = 403 /\ sent.resp = "Admin only"
    /\ sent.admin_id = 2
    /\ users[2].role = "politician"

\* C6: with requests served one after another, an apply for a user who has
\* an application row (pending, approved or rejected) inserts no row, and a
\* body that passes the field checks is answered "You have already submitted
\* an application".
C6_SecondApplyRefused ==
    [][\A u \in BodyUserIds : \A f \in BodyForms(u) :
         (ApplyCheck(u, f) /\ ApplicationsOf(applications, u) # {})
         => /\ applications' = applications
            /\ inflight' = inflight
            /\ sent'.kind = "apply"
            /\ sent'.status = 400
            /\ (~MissingRequiredFields(u, f) /\ ~CountyMissing(f))
                 => sent'.resp = "You have already submitted an application"
    ]_vars

C6_Witness ==
    /\ sent.kind = "apply"
    /\ sent.resp = "You have already submitted an application"
    /\ \E i \in DOMAIN applications :
         /\ applications[i].user_id = sent.user_id
         /\ applications[i].status = "rejected"

\* C7: politician_applications never holds two rows of one user_id.
C7_AtMostOneApplicationPerUser ==
    \A u \in BodyUserIds : Cardinality(ApplicationsOf(applications, u)) <= 1

(* ------------------------------------------------------------------ *)
(* Properties of the accounts                                          *)
(* ------------------------------------------------------------------ *)
\* a /login body with this email and the password the row was hashed from
CorrectLogin(row) ==
    { [NewReq EXCEPT !.kind = "login", !.email = row.email, !.password = p] :
        p \in { p \in BodyPasswords : p # Null /\ row.password_hash = Hash(p) } }

\* C8: a registered user's login with the right email and password is
\* answered "Please verify your email first" until a /verify-email with the
\* right code has succeeded, and from that success on it is answered with
\* {id, username, email, role}.
C8_LoginGatedByVerification ==
    [][/\ \A i \in DOMAIN users' : i \notin DOMAIN users => ~users'[i].email_verified
       /\ \A i \in DOMAIN users :
            (~users[i].email_verified /\ users'[i].email_verified)
            => \E q \in Waiting :
                 /\ q.pc = "verify_update" /\ Stepped(q) /\ q.email = users[i].email
                 /\ sent'.resp = "success"
       /\ \A i \in DOMAIN users :
            (/\ AnsweredAtOnce /\ sent'.kind = "login"
             /\ sent'.email = users[i].email
             /\ sent'.password # Null
             /\ users[i].password_hash = Hash(sent'.password)
             /\ ~users[i].email_verified)
            => sent'.resp = "Please verify your email first"
       /\ \A q \in Waiting :
            (q.pc = "verify_update" /\ Stepped(q) /\ sent'.resp = "success")
            => \A i \in DOMAIN users' :
                 users'[i].email = q.email
                 => \A l \in CorrectLogin(users'[i]) :
                      LoginAnswer(l, users'[i]).body = LoginBody(users'[i])
    ]_vars

\* C9: once /verify-email (or /reset-password) has succeeded for an email
\* with a supplied code (its update applied, success answered), the same
\* email with the same supplied code is refused.
C9_CodeSingleUse ==
    [][\A q \in Waiting :
         /\ (/\ q.pc = "verify_update" /\ Stepped(q)
             /\ sent'.resp = "success" /\ ~sent'.failed)
            => VerifyRejected(UserByEmail(q.email), q.code)'
         /\ (/\ q.pc = "reset_update" /\ Stepped(q)
             /\ sent'.resp = "success" /\ ~sent'.failed)
            => ResetRejected(UserByEmail(q.email), q.code)'
    ]_vars

\* the row of an email whose stored code is the supplied one and has not expired
VerifyCodeGood(email, code) ==
    \E i \in DOMAIN users :
        /\ users[i].email = email
        /\ users[i].verify_code = code
        /\ users[i].verify_code_expires # NullTime
        /\ now <= users[i].verify_code_expires

ResetCodeGood(email, code) ==
    \E i \in DOMAIN users :
        /\ users[i].email = email
        /\ users[i].reset_code = code
        /\ users[i].reset_code_expires # NullTime
        /\ now <= users[i].reset_code_expires

\* C10: /verify-email and /reset-password go on to their update, and answer
\* success, exactly when a row has the email, its stored code is the supplied
\* one and the clock is not past the stored expiry, which is 15 minutes after
\* the code was issued; otherwise they answer "Invalid or expired code" and
\* write nothing.
C10_ValidateCode ==
    [][/\ (AnsweredAtOnce /\ sent'.kind = "verify")
          => /\ ~VerifyCodeGood(sent'.email, sent'.code)
             /\ sent'.resp = "Invalid or expired code"
             /\ tables' = tables
       /\ (AnsweredAtOnce /\ sent'.kind = "reset")
          => /\ ~ResetCodeGood(sent'.email, sent'.code)
             /\ sent'.resp = "Invalid or expired code"
             /\ tables' = tables
       /\ \A q \in BagToSet(inflight') :
            /\ (Admitted(q) /\ q.kind = "verify") => VerifyCodeGood(q.email, q.code)
            /\ (Admitted(q) /\ q.kind = "reset") => ResetCodeGood(q.email, q.code)
       /\ \A q \in Waiting :
            (q.pc \in {"verify_update", "reset_update"} /\ Stepped(q))
            => sent'.resp = "success"
       /\ \A i \in DOMAIN users' :
            /\ i \notin DOMAIN users
               => users'[i].verify_code_expires = now + CodeTTL
            /\ (i \in DOMAIN users /\ users'[i].reset_code # Null
                  /\ << users'[i].reset_code, users'[i].reset_code_expires >>
                       # << users[i].reset_code, users[i].reset_code_expires >>)
               => users'[i].reset_code_expires = now + CodeTTL
    ]_vars

\* the right code, supplied after its expiry, is refused
C10_Witness ==
    /\ sent.kind = "verify" /\ sent.resp = "Invalid or expired code"
    /\ \E i \in DOMAIN users :
         /\ users[i].email = sent.email
         /\ users[i].verify_code = sent.code
         /\ now > users[i].verify_code_expires

\* C11: a login whose password does not match the stored hash is answered
\* the same whatever the account's is_active and email_verified are, and
\* never with "Account is suspended" or "Please verify your email first".
C11_StatusChecksAfterCredentialMatch ==
    [][\A i \in DOMAIN users :
         (/\ AnsweredAtOnce /\ sent'.kind = "login"
          /\ sent'.email = users[i].email
          /\ sent'.password # Null
          /\ users[i].password_hash # Hash(sent'.password))
         => LET l == [NewReq EXCEPT !.kind = "login", !.email = sent'.email,
                                    !.password = sent'.password]
            IN /\ sent'.resp \notin {"Account is suspended",
                                     "Please verify your email first"}
               /\ \A a \in BOOLEAN, v \in BOOLEAN :
                    LoginAnswer(l, [users[i] EXCEPT !.is_active = a,
                                                   !.email_verified = v]) = sent'
    ]_vars

(* ------------------------------------------------------------------ *)
(* Properties of ratings                                               *)
(* ------------------------------------------------------------------ *)
RatingsOf(table, user_id, target_id) ==
    { i \in DOMAIN table : table[i].user_id = user_id /\ table[i].target_id = target_id
                            /\ table[i].target_type = "manifesto" }

C13_RatingRange ==
    [][/\ (sent'.kind = "rate" /\ (sent'.rating < 1 \/ sent'.rating > 5))
          => /\ sent'.status = 400
             /\ ratings' = ratings
       /\ \A i \in DOMAIN ratings' : ratings'[i].rating \in 1..5
    ]_vars

\* a negative rating for a target that already has a rating is turned away
C13_Witness ==
    /\ sent.kind = "rate" /\ sent.rating < 0 /\ sent.status = 400
    /\ sent.user_id # NullId /\ sent.target_id # NullId
    /\ RatingsOf(ratings, sent.user_id, sent.target_id) # {}

(* ------------------------------------------------------------------ *)
(* Properties of manifestos                                            *)
(* ------------------------------------------------------------------ *)
IsPolitician(user_id) ==
    \E i \in DOMAIN users : users[i].id = user_id /\ users[i].role = "politician"

\* C14: a /manifesto with all fields present is answered 400 "Invalid
\* manifesto category" when its category is not an allowed one, whoever
\* sends it; otherwise 403 "Only politicians can post manifestos" when the
\* caller's row is missing or its role is not politician, whether or not a
\* profile exists; otherwise 404 "Politician profile not found" when the
\* caller has no profile.  None of these writes anything, and a row is
\* added to manifestos only by a caller who passed all three, with the id
\* of the caller's own profile as politician_id.
C14_ManifestoChecks ==
    [][/\ (/\ AnsweredAtOnce /\ sent'.kind = "manifesto"
           /\ sent'.resp # "All fields are required")
          => IF sent'.category \notin allowedCategories
               THEN sent'.status = 400 /\ sent'.resp = "Invalid manifesto category"
               ELSE /\ ~IsPolitician(sent'.user_id)
                    /\ sent'.status = 403
                    /\ sent'.resp = "Only politicians can post manifestos"
       /\ \A q \in BagToSet(inflight') :
            (Admitted(q) /\ q.kind = "manifesto")
            => q.category \in allowedCategories /\ IsPolitician(q.user_id)
       /\ \A q \in Waiting :
            (q.pc = "manifesto_profile" /\ Stepped(q))
            => IF ProfilesOf(profiles, q.user_id) = {}
                 THEN sent'.status = 404 /\ sent'.resp = "Politician profile not found"
                 ELSE sent' = NoAnswer
       /\ (sent'.kind = "manifesto" /\ sent'.status # 200) => tables' = tables
       /\ manifestos' # manifestos
          => \E q \in Waiting :
               /\ q.pc = "manifesto_insert" /\ Stepped(q)
               /\ q.category \in allowedCategories
               /\ IsPolitician(q.user_id)
               /\ \E i \in ProfilesOf(profiles, q.user_id) :
                    manifestos' = Append(manifestos,
                        ManifestoRow(profiles[i].id, q.category, q.content))
    ]_vars

\* a politician's manifesto is in the table under the id of the profile,
\* which is not the id of the user
C14_Witness ==
    /\ sent.kind = "manifesto" /\ sent.status = 200
    /\ Len(manifestos) > 0
    /\ manifestos[Len(manifestos)].politician_id # sent.user_id
    /\ \E i \in DOMAIN profiles :
         /\ profiles[i].user_id = sent.user_id
         /\ profiles[i].id = manifestos[Len(manifestos)].politician_id

(* ------------------------------------------------------------------ *)
(* Properties of the ground feed                                       *)
(* ------------------------------------------------------------------ *)
\* C15: a /ground-repost whose ground_id is the id of no ground_updates row
\* is answered with an error and inserts no row.
C15_RepostOfMissingFails ==
    [][(/\ AnsweredAtOnce /\ sent'.kind = "repost"
        /\ ~\E i \in DOMAIN ground_updates : ground_updates[i].id = sent'.ground_id)
       => /\ sent'.status >= 400
          /\ ground_updates' = ground_updates
    ]_vars

(* ------------------------------------------------------------------ *)
(* Properties of the accounts: email, stored codes                     *)
(* ------------------------------------------------------------------ *)
\* C16: whether or not sendEmail succeeds, the step of /register or
\* /forgot-password that awaits it leaves the users table (the inserted
\* row, the stored reset code) as it was and sends a response.
C16_EmailFailureNotFatal ==
    [][\A q \in Waiting :
         (q.pc \in {"register_email", "forgot_email"} /\ Stepped(q))
         => /\ users' = users
            /\ sent'.kind = q.kind
            /\ sent'.status # 0
    ]_vars

\* C17: a /verify-email answered success, its update applied, leaves the
\* row with email_verified true and verify_code and verify_code_expires
\* null; a /reset-password answered success, its update applied, leaves the
\* row with reset_code and reset_code_expires null and password_hash the
\* hash of the new password.
C17_CodesClearedOnSuccess ==
    [][\A q \in Waiting :
         /\ (/\ q.pc = "verify_update" /\ Stepped(q)
             /\ sent'.resp = "success" /\ ~sent'.failed)
            => \A i \in DOMAIN users' :
                 users'[i].email = q.email
                 => /\ users'[i].email_verified
                    /\ users'[i].verify_code = Null
                    /\ users'[i].verify_code_expires = NullTime
         /\ (/\ q.pc = "reset_update" /\ Stepped(q)
             /\ sent'.resp = "success" /\ ~sent'.failed)
            => \A i \in DOMAIN users' :
                 users'[i].email = q.email
                 => /\ users'[i].reset_code = Null
                    /\ users'[i].reset_code_expires = NullTime
                    /\ users'[i].password_hash = Hash(q.password)
    ]_vars

(* ------------------------------------------------------------------ *)
(* Properties of approvals: profiles, retries, roles                   *)
(* ------------------------------------------------------------------ *)
\* no run of approve is between its fetch and its answer
NoApprovePartWay ==
    \A q \in Waiting :
        q.pc \notin {"approve_role", "approve_profile", "approve_status"}

HasApproved(user_id) ==
    \E j \in DOMAIN applications :
        applications[j].user_id = user_id /\ applications[j].status = "approved"

\* C18: whenever no approve run is part-way through its writes, every
\* profile row is of a user who has an approved application, and every user
\* who has an approved application has exactly one profile row.
C18_ProfilesMatchApprovedApplications ==
    NoApprovePartWay
    => /\ \A i \in DOMAIN profiles : HasApproved(profiles[i].user_id)
       /\ \A j \in DOMAIN applications :
            applications[j].status = "approved"
            => Cardinality(ProfilesOf(profiles, applications[j].user_id)) = 1

C20_RoleOnlyVoterToPolitician ==
    [][\A i \in DOMAIN users :
         users'[i].role # users[i].role
         => /\ users[i].role = "voter"
            /\ users'[i].role = "politician"
            /\ \E q \in Waiting :
                 /\ q.pc = "approve_role" /\ Stepped(q)
                 /\ q.appData.user_id = users[i].id
    ]_vars

(* ------------------------------------------------------------------ *)
(* Properties of the duplicate guard of /apply-politician              *)
(* ------------------------------------------------------------------ *)
\* C21: an apply for a user who has one or more application rows, two or
\* more included, is turned away on arrival: no handler run of it goes on
\* to the insert, no row is added, and a body that passes the field checks
\* is answered "You have already submitted an application".
C21_GuardRejectsWithAnyRows ==
    [][/\ \A q \in BagToSet(inflight') :
            (Admitted(q) /\ q.kind = "apply")
            => ApplicationsOf(applications, q.user_id) = {}
       /\ \A q \in Waiting :
            (q.pc = "apply_insert" /\ Stepped(q)
              /\ Cardinality(ApplicationsOf(applications, q.user_id)) >= 2)
            => applications' = applications
       /\ (/\ AnsweredAtOnce /\ sent'.kind = "apply"
           /\ sent'.resp \notin {"Missing required fields",
                                  "County is required for this seat"})
          => /\ ApplicationsOf(applications, sent'.user_id) # {}
             /\ sent'.status = 400
             /\ sent'.resp = "You have already submitted an application"
    ]_vars

====
